---- MODULE Spec2Model ----
(***************************************************************************)
(* State-machine model of the chat session held by the Chatbot component   *)
(* (src/src/components/Chatbot.tsx): the conversation store, the history   *)
(* index, the composer, the attachment buffer and the simulated assistant  *)
(* reply.  Every React event handler runs to completion before the next    *)
(* event is handled, so each handler is one atomic action; the callbacks   *)
(* it leaves behind (reply timer, file reader) are separate actions.       *)
(*                                                                         *)
(* Conventions.  Strings are TLA+ strings (TLC treats them as sequences of *)
(* characters, so Len, \o and SubSeq compute on them as the code does).    *)
(* The two non-ASCII characters of the source are written in ASCII:        *)
(* U+2026 (ellipsis) as "^" and U+2022 (bullet) as "*", one character      *)
(* each.  An attachments field that is undefined in the source is the      *)
(* empty sequence here; a null reaction / copied id is the string "null".  *)
(* The display-only fields name, avatarFallback and markdown of a message  *)
(* are functions of its role and are left out.                             *)
(***************************************************************************)
EXTENDS Integers, Sequences, FiniteSets, TLC

(* ------------------------------ bounds --------------------------------- *)

\* user events handled in one run: accepted submits, new chats, selections,
\* staged images, reaction toggles and copy requests (typing, removing a
\* staged attachment and the callbacks are not counted)
MaxEvents == 3

(* --------------------------- program constants ------------------------- *)

Null == "null"

historySeed ==
  << [label |-> "Today",
      conversations |->
        << [id |-> "today-1", title |-> "Product launch prep",
            preview |-> "Drafted announcement copy and QA checklist for beta release.",
            timestamp |-> "2h ago"],
           [id |-> "today-2", title |-> "Onboarding survey",
            preview |-> "Outlined questions that capture first-week friction and success signals.",
            timestamp |-> "4h ago"],
           [id |-> "today-3", title |-> "Design critique notes",
            preview |-> "Summarised feedback threads and grouped by priority / owner.",
            timestamp |-> "6h ago"] >>],
     [label |-> "Earlier this week",
      conversations |->
        << [id |-> "week-1", title |-> "Support triage ideas",
            preview |-> "Generated macros for the top friction requests from this week.",
            timestamp |-> "3 days ago"],
           [id |-> "week-2", title |-> "Growth experiment doc",
            preview |-> "Mapped out hypotheses, guardrail metrics, and rollout cadence.",
            timestamp |-> "5 days ago"] >>] >>

\* role and content of the three introductory messages (content shortened to
\* its first sentence; no operation reads it)
messageTemplates ==
  << [role |-> "assistant", content |-> "Hey there! I'm Nova, a prompt-kit powered assistant."],
     [role |-> "user",
      content |-> "Let's create a user interview outline that digs into motivation and workflow pains."],
     [role |-> "assistant", content |-> "Absolutely - here's a structured outline you can use:"] >>

\* providers[0].label and providers[0].models[0].label: the initial selection
providerLabel == "OpenAI"
modelLabel == "GPT-4o"

\* files the user can paste or upload: name, MIME type, size, payload
Files ==
  { [name |-> "", type |-> "image/png", size |-> 2048, data |-> "AAAA"],
    [name |-> "notes.txt", type |-> "text/plain", size |-> 10, data |-> "CCCC"] }

\* composer texts the user can type: white space alone, and a prompt longer
\* than the preview limit with white space around it
Texts ==
  { "  ",
    " Please draft the interview outline for the onboarding study: motivation, workflow pains, goals.\n" }

(* ------------------------------ helpers -------------------------------- *)

Range(s) == { s[i] : i \in 1..Len(s) }

\* Array.prototype.filter
RECURSIVE SelectSeqBy(_, _)
SelectSeqBy(s, keep) ==
  IF s = <<>> THEN <<>>
  ELSE IF Head(s) \in keep THEN <<Head(s)>> \o SelectSeqBy(Tail(s), keep)
       ELSE SelectSeqBy(Tail(s), keep)

\* conversations.filter(c => c.id !== id)
RemoveId(convs, id) == SelectSeqBy(convs, { c \in Range(convs) : c.id # id })

\* conversations.findIndex(c => c.id === id), 0 for -1
FindIndex(convs, id) ==
  IF \E i \in 1..Len(convs) : convs[i].id = id
  THEN CHOOSE i \in 1..Len(convs) :
         /\ convs[i].id = id
         /\ \A j \in 1..(i - 1) : convs[j].id # id
  ELSE 0

\* splice(index, 1): the array without its index-th element
RemoveAt(s, i) == SubSeq(s, 1, i - 1) \o SubSeq(s, i + 1, Len(s))

IsSpace(ch) == ch \in { " ", "\t", "\n", "\r" }

RECURSIVE TrimStart(_)
TrimStart(s) ==
  IF Len(s) = 0 THEN s
  ELSE IF IsSpace(SubSeq(s, 1, 1)) THEN TrimStart(SubSeq(s, 2, Len(s)))
       ELSE s

RECURSIVE TrimEnd(_)
TrimEnd(s) ==
  IF Len(s) = 0 THEN s
  ELSE IF IsSpace(SubSeq(s, Len(s), Len(s))) THEN TrimEnd(SubSeq(s, 1, Len(s) - 1))
       ELSE s

\* String.prototype.trim
Trim(s) == TrimEnd(TrimStart(s))

(* ---------------------------- createId --------------------------------- *)
(* createId returns Math.random().toString(36).slice(2, 10): a token that  *)
(* depends on the random outcome alone.  Nothing makes an outcome differ   *)
(* from the earlier ones.  `iss` is the sequence of tokens returned so     *)
(* far.  Outcomes never seen before are interchangeable, so one fresh      *)
(* token stands for all of them.  The runs explored hold at most one       *)
(* repeated outcome (FirstCollision), and it repeats one of the tokens of  *)
(* the last CollisionWindow calls.                                         *)
(***************************************************************************)

\* the createId() calls of handleNewChat, the handler that makes the most:
\* two consecutive new chats can draw the same conversation id
CollisionWindow == 1 + Len(messageTemplates)

FreshId(iss) == "r" \o ToString(Len(iss) + 1)

Collisions(iss) == Len(iss) - Cardinality(Range(iss))

\* no outcome has been repeated yet
FirstCollision(iss) == Collisions(iss) = 0

RepeatedIds(iss) ==
  IF FirstCollision(iss)
  THEN { iss[i] : i \in { j \in 1..Len(iss) : j > Len(iss) - CollisionWindow } }
  ELSE {}

\* the tokens the next createId() call can return
createId(iss) == { FreshId(iss) } \cup RepeatedIds(iss)

\* the token sequences k successive createId() calls can return
RECURSIVE Draws(_, _)
Draws(iss, k) ==
  IF k = 0 THEN { <<>> }
  ELSE UNION { { <<id>> \o rest : rest \in Draws(Append(iss, id), k - 1) } : id \in createId(iss) }

\* k calls that return k tokens never seen before
RECURSIVE FreshDraws(_, _)
FreshDraws(iss, k) ==
  IF k = 0 THEN <<>>
  ELSE <<FreshId(iss)>> \o FreshDraws(Append(iss, FreshId(iss)), k - 1)

(* ------------------------- message builders ---------------------------- *)

\* ids: the tokens of the three createId() calls, in template order
createInitialMessages(ids) ==
  [ i \in 1..Len(messageTemplates) |->
      [id |-> ids[i],
       role |-> messageTemplates[i].role,
       content |-> messageTemplates[i].content,
       attachments |-> <<>>,
       reaction |-> Null] ]

createPlaceholderConversation(id, title, preview) ==
  << [id |-> id,
      role |-> "assistant",
      content |-> "This is a placeholder view for **" \o title \o "**." \o "\n\n"
                  \o preview \o "\n\n"
                  \o "Load real messages here by persisting conversations and hydrating them when the user opens the thread.",
      attachments |-> <<>>,
      reaction |-> Null] >>

(* --------------------------- history index ----------------------------- *)

\* all summaries of the index, group after group
RECURSIVE Flatten(_)
Flatten(groups) ==
  IF groups = <<>> THEN <<>>
  ELSE Head(groups).conversations \o Flatten(Tail(groups))

HistoryIds(groups) == { c.id : c \in Range(Flatten(groups)) }

findConversationTitle(groups, conversationId) ==
  LET all == Flatten(groups)
      i == FindIndex(all, conversationId)
  IN IF i # 0 THEN all[i].title ELSE "Untitled chat"

truncateLimit == 80

\* a preview that is the whole text
wholeText(text) == text

truncateText(text) ==
  IF Len(text) <= truncateLimit THEN text
  ELSE SubSeq(text, 1, truncateLimit) \o "^"

(* A summary factory (the `updater` argument of promoteConversation) is a  *)
(* record; Apply calls it with the existing summary, or with Null.         *)
(*   refresh : the updater of refreshHistoryPreview(id, preview, title)    *)
(*   const   : the updater of handleNewChat, () => summary                 *)
(*   keep    : the updater of handleSelectConversation,                    *)
(*             existing => existing ?? { ...summary }                      *)
\* a refresh updater that names the conversation anew
RefreshFactoryUntitled(conversationId, preview, title) ==
  [kind |-> "refresh", id |-> conversationId, preview |-> preview, title |-> "Untitled chat"]

RefreshFactory(conversationId, preview, title) ==
  [kind |-> "refresh", id |-> conversationId, preview |-> preview, title |-> title]

ConstFactory(summary) == [kind |-> "const", summary |-> summary]

\* a factory that adopts the summary it was given, whatever exists
AdoptFactory(summary) == [kind |-> "const", summary |-> summary]

KeepFactory(summary) == [kind |-> "keep", summary |-> summary]

\* the `existing` argument of an updater when no summary was found (null)
NoSummary == [id |-> Null, title |-> Null, preview |-> Null, timestamp |-> Null]

Apply(f, existing) ==
  CASE f.kind = "refresh" ->
         [id |-> IF existing # NoSummary THEN existing.id ELSE f.id,
          title |-> IF f.title # Null THEN f.title
                    ELSE IF existing # NoSummary THEN existing.title ELSE "Untitled chat",
          preview |-> truncateText(f.preview),
          timestamp |-> "Just now"]
    [] f.kind = "const" -> f.summary
    [] f.kind = "keep" -> IF existing # NoSummary THEN existing ELSE f.summary

\* index of the first group that holds conversationId, 0 when none does
FirstGroupWith(groups, conversationId) ==
  IF \E g \in 1..Len(groups) : FindIndex(groups[g].conversations, conversationId) # 0
  THEN CHOOSE g \in 1..Len(groups) :
         /\ FindIndex(groups[g].conversations, conversationId) # 0
         /\ \A h \in 1..(g - 1) : FindIndex(groups[h].conversations, conversationId) = 0
  ELSE 0

\* the loop of promoteConversation: the summary it splices out, or null
ExistingSummary(groups, conversationId) ==
  LET g == FirstGroupWith(groups, conversationId)
  IN IF g = 0 THEN NoSummary
     ELSE groups[g].conversations[FindIndex(groups[g].conversations, conversationId)]

\* a promotion that leaves the existing summary where it was
SpliceNothing(groups, conversationId) == groups

\* the loop of promoteConversation: the groups after the splice
SpliceOut(groups, conversationId) ==
  LET g == FirstGroupWith(groups, conversationId)
  IN IF g = 0 THEN groups
     ELSE [groups EXCEPT ![g].conversations =
             RemoveAt(@, FindIndex(@, conversationId))]

\* a promotion that inserts the summary at the end of the first group
promoteAtEnd(groups, conversationId, updater) ==
  LET existing == ExistingSummary(groups, conversationId)
      spliced == SpliceOut(groups, conversationId)
      updated == Apply(updater, existing)
      next == IF Len(spliced) = 0
              THEN << [label |-> "Today", conversations |-> <<>>] >>
              ELSE spliced
  IN [next EXCEPT ![1].conversations = RemoveId(@, updated.id) \o <<updated>>]

\* a promotion that writes the summary over the first one of the first group
promoteOverFirst(groups, conversationId, updater) ==
  LET existing == ExistingSummary(groups, conversationId)
      spliced == SpliceOut(groups, conversationId)
      updated == Apply(updater, existing)
      next == IF Len(spliced) = 0
              THEN << [label |-> "Today", conversations |-> <<>>] >>
              ELSE spliced
  IN [next EXCEPT ![1].conversations =
        <<updated>> \o RemoveId(IF @ = <<>> THEN @ ELSE Tail(@), updated.id)]

promoteConversation(groups, conversationId, updater) ==
  LET existing == ExistingSummary(groups, conversationId)
      spliced == SpliceOut(groups, conversationId)
      updated == Apply(updater, existing)
      next == IF Len(spliced) = 0
              THEN << [label |-> "Today", conversations |-> <<>>] >>
              ELSE spliced
  IN [next EXCEPT ![1].conversations = <<updated>> \o RemoveId(@, updated.id)]

(* ------------------------------- state --------------------------------- *)

VARIABLES
  historyGroups,            \* useState: the history index
  conversations,            \* useState: conversation id -> message list
  activeConversationId,
  activeConversationTitle,
  chatCounter,
  composerAttachments,      \* the attachment buffer
  copiedMessageId,
  input,                    \* the composer text
  isGenerating,             \* the in-flight flag
  replyTimers,              \* pending window.setTimeout(..., 600) callbacks, oldest first
  reading,                  \* files whose FileReader has not fired onload yet
  issued,                   \* every token createId has returned, in call order
  opened,                   \* the conversation ids that have been the active one
  handled,                  \* how many counted user events were handled
  accepted,                 \* how many submits handleSubmit accepted
  delivered,                \* how many reply timers have fired
  clipboardWrites,          \* message ids whose clipboard.writeText has not settled yet
  copyTimers,               \* pending window.setTimeout(..., 2000) callbacks, oldest first
  crossed,                  \* per pending FileReader: a submit, new chat or selection ran since it started
  survived                  \* how many readers fired onload after such an event

vars ==
  << historyGroups, conversations, activeConversationId, activeConversationTitle,
     chatCounter, composerAttachments, copiedMessageId, input, isGenerating,
     replyTimers, reading, issued, opened, handled, accepted, delivered,
     clipboardWrites, copyTimers, crossed, survived >>

\* every pending reader has seen a submit, new chat or selection
AllCrossed(q) == [ n \in 1..Len(q) |-> TRUE ]

\* previous[conversationId] ?? []
Current(convs, conversationId) ==
  IF conversationId \in DOMAIN convs THEN convs[conversationId] ELSE <<>>

\* an update that stores the last message of the list in front of the others
updateConversationMessagesInFront(convs, conversationId, updated) ==
  [ k \in (DOMAIN convs) \cup {conversationId} |->
      IF k = conversationId
      THEN IF updated = <<>> THEN updated
           ELSE <<updated[Len(updated)]>> \o SubSeq(updated, 1, Len(updated) - 1)
      ELSE convs[k] ]

\* { ...previous, [conversationId]: updated }
updateConversationMessages(convs, conversationId, updated) ==
  [ k \in (DOMAIN convs) \cup {conversationId} |->
      IF k = conversationId THEN updated ELSE convs[k] ]

\* a store that holds the primary conversation alone
buildPrimaryConversationMap(groups, ids) ==
  LET primaryId == Flatten(groups)[1].id
  IN [ k \in { primaryId } |-> createInitialMessages(SubSeq(ids, 1, Len(messageTemplates))) ]

\* ids: the tokens of the createId() calls, in call order
buildInitialConversationMap(groups, ids) ==
  LET all == Flatten(groups)
      primaryId == all[1].id
      n == Len(messageTemplates)
  IN [ k \in { c.id : c \in Range(all) } |->
         LET i == FindIndex(all, k)
         IN IF k = primaryId
            THEN createInitialMessages(SubSeq(ids, 1, n))
            ELSE createPlaceholderConversation(ids[n + i - 1], all[i].title, all[i].preview) ]

seedActiveConversationId == historySeed[1].conversations[1].id

seedActiveConversationTitle == findConversationTitle(historySeed, seedActiveConversationId)

\* historySeed.reduce((total, section) => total + section.conversations.length, 0)
SeedCount == Len(Flatten(historySeed))

\* the construction's createId() outcomes are taken pairwise distinct
Init ==
  LET ids == FreshDraws(<<>>, Len(messageTemplates) + SeedCount - 1) IN
    /\ historyGroups = historySeed
    /\ conversations = buildInitialConversationMap(historySeed, ids)
    /\ activeConversationId = seedActiveConversationId
    /\ activeConversationTitle = seedActiveConversationTitle
    /\ chatCounter = SeedCount + 1
    /\ composerAttachments = <<>>
    /\ copiedMessageId = Null
    /\ input = ""
    /\ isGenerating = FALSE
    /\ replyTimers = <<>>
    /\ reading = <<>>
    /\ issued = ids
    /\ opened = { seedActiveConversationId }
    /\ handled = 0
    /\ accepted = 0
    /\ delivered = 0
    /\ clipboardWrites = <<>>
    /\ copyTimers = <<>>
    /\ crossed = <<>>
    /\ survived = 0

(* ------------------------------ composer ------------------------------- *)

\* onValueChange={setInput}; the composer is disabled while isGenerating
setInput(text) ==
  /\ ~isGenerating
  /\ text # input
  /\ input' = text
  /\ UNCHANGED << crossed, survived, clipboardWrites, copyTimers, opened, historyGroups, conversations, activeConversationId,
                  activeConversationTitle, chatCounter, composerAttachments,
                  copiedMessageId, isGenerating, replyTimers, reading, issued, handled,
                  accepted, delivered >>

\* a filter that lets every file through
AnyFile(file) == TRUE

\* file.type.startsWith("image/")
IsImage(file) == Len(file.type) >= 6 /\ SubSeq(file.type, 1, 6) = "image/"

\* handlePasteImages / handleImageUpload with one file: a non-image file is
\* filtered out and nothing happens; an image gets a FileReader
stageFile(file) ==
  /\ handled < MaxEvents
  /\ IF IsImage(file)
     THEN /\ reading' = Append(reading, file)
          /\ crossed' = Append(crossed, FALSE)
          /\ handled' = handled + 1
     ELSE UNCHANGED << reading, crossed, handled >>
  /\ UNCHANGED << survived, clipboardWrites, copyTimers, opened, historyGroups, conversations, activeConversationId,
                  activeConversationTitle, chatCounter, composerAttachments,
                  copiedMessageId, input, isGenerating, replyTimers, issued,
                  accepted, delivered >>

\* the attachment reader.onload appends for `file`, given the buffer it finds
NewAttachment(id, file, previous) ==
  [id |-> id,
   name |-> IF file.name # "" THEN file.name
            ELSE "pasted-image-" \o ToString(Len(previous) + 1) \o ".png",
   type |-> file.type,
   size |-> file.size,
   preview |-> "data:" \o file.type \o ";base64," \o file.data]

\* reader.onload of addAttachmentFromFile, for the i-th pending reader
readerOnload(i) ==
  /\ i \in 1..Len(reading)
  /\ \E id \in createId(issued) :
       /\ composerAttachments' =
            Append(composerAttachments, NewAttachment(id, reading[i], composerAttachments))
       /\ issued' = Append(issued, id)
  /\ reading' = RemoveAt(reading, i)
  /\ crossed' = RemoveAt(crossed, i)
  /\ survived' = IF crossed[i] THEN survived + 1 ELSE survived
  /\ UNCHANGED << clipboardWrites, copyTimers, opened, historyGroups, conversations, activeConversationId,
                  activeConversationTitle, chatCounter, copiedMessageId, input,
                  isGenerating, replyTimers, handled, accepted, delivered >>

handleRemoveAttachment(attachmentId) ==
  /\ attachmentId \in { a.id : a \in Range(composerAttachments) }
  /\ composerAttachments' = RemoveId(composerAttachments, attachmentId)
  /\ UNCHANGED << crossed, survived, clipboardWrites, copyTimers, opened, historyGroups, conversations, activeConversationId,
                  activeConversationTitle, chatCounter, copiedMessageId, input,
                  isGenerating, replyTimers, reading, issued, handled, accepted,
                  delivered >>

(* ------------------------------ reactions ------------------------------ *)

\* a map that sets the reaction whatever the message holds
MarkedMessages(current, messageId, reaction) ==
  [ i \in 1..Len(current) |->
      IF current[i].id = messageId
      THEN [current[i] EXCEPT !.reaction = reaction]
      ELSE current[i] ]

\* the map of toggleReaction over the current messages
ToggledMessages(current, messageId, reaction) ==
  [ i \in 1..Len(current) |->
      IF current[i].id = messageId
      THEN [current[i] EXCEPT !.reaction = IF @ = reaction THEN Null ELSE reaction]
      ELSE current[i] ]

\* the reaction buttons are rendered for the assistant messages of the
\* active conversation
toggleReaction(messageId, reaction) ==
  /\ handled < MaxEvents
  /\ \E m \in Range(Current(conversations, activeConversationId)) :
       m.id = messageId /\ m.role = "assistant"
  /\ conversations' =
       updateConversationMessages(conversations, activeConversationId,
         ToggledMessages(Current(conversations, activeConversationId), messageId, reaction))
  /\ handled' = handled + 1
  /\ UNCHANGED << crossed, survived, clipboardWrites, copyTimers, opened, historyGroups, activeConversationId, activeConversationTitle,
                  chatCounter, composerAttachments, copiedMessageId, input,
                  isGenerating, replyTimers, reading, issued, accepted, delivered >>

(* -------------------------------- copy --------------------------------- *)

\* handleCopy up to its await: the copy button of an assistant message of the
\* active conversation starts navigator.clipboard.writeText(message.content)
handleCopy(message) ==
  /\ handled < MaxEvents
  /\ message \in Range(Current(conversations, activeConversationId))
  /\ message.role = "assistant"
  /\ clipboardWrites' = Append(clipboardWrites, message.id)
  /\ handled' = handled + 1
  /\ UNCHANGED << crossed, survived, historyGroups, conversations, activeConversationId,
                  activeConversationTitle, chatCounter, composerAttachments, input,
                  isGenerating, replyTimers, reading, issued, opened, copiedMessageId, copyTimers,
                  accepted, delivered >>

\* handleCopy after its await, the write having succeeded:
\* setCopiedMessageId(message.id) and the 2000 ms timer
clipboardResolved(i) ==
  /\ i \in 1..Len(clipboardWrites)
  /\ copiedMessageId' = clipboardWrites[i]
  /\ copyTimers' = Append(copyTimers, clipboardWrites[i])
  /\ clipboardWrites' = RemoveAt(clipboardWrites, i)
  /\ UNCHANGED << crossed, survived, historyGroups, conversations, activeConversationId,
                  activeConversationTitle, chatCounter, composerAttachments, input,
                  isGenerating, replyTimers, reading, issued, opened, handled, accepted, delivered >>

\* handleCopy after its await, the write having failed: the catch branch
clipboardRejected(i) ==
  /\ i \in 1..Len(clipboardWrites)
  /\ copiedMessageId' = Null
  /\ clipboardWrites' = RemoveAt(clipboardWrites, i)
  /\ UNCHANGED << crossed, survived, historyGroups, conversations, activeConversationId,
                  activeConversationTitle, chatCounter, composerAttachments, input,
                  isGenerating, replyTimers, reading, issued, opened, copyTimers, handled,
                  accepted, delivered >>

\* an updater that returns the marker it is given
MarkerKept(current, messageId) == current

\* the timer callback's updater: current === message.id ? null : current
MarkerAfterTimer(current, messageId) == IF current = messageId THEN Null ELSE current

\* the window.setTimeout callback of handleCopy; equal delays fire in the
\* order they were set
clearCopied ==
  /\ copyTimers # <<>>
  /\ copiedMessageId' = MarkerAfterTimer(copiedMessageId, Head(copyTimers))
  /\ copyTimers' = Tail(copyTimers)
  /\ UNCHANGED << crossed, survived, historyGroups, conversations, activeConversationId,
                  activeConversationTitle, chatCounter, composerAttachments, input,
                  isGenerating, replyTimers, reading, issued, opened, clipboardWrites, handled,
                  accepted, delivered >>

(* ------------------------------- submit -------------------------------- *)

hasPendingInput == Len(Trim(input)) > 0 \/ Len(composerAttachments) > 0

\* a guard that looks at the pending input alone
SubmitRejectedWithoutInput == ~hasPendingInput

\* if (!hasPendingInput || isGenerating) return;
SubmitRejected == ~hasPendingInput \/ isGenerating

\* undefined (here "") when there is no attachment
attachmentsSummary(n) ==
  IF n > 0
  THEN "Shared " \o ToString(n) \o " attachment" \o (IF n > 1 THEN "s" ELSE "")
  ELSE ""

\* a || b on strings: "" and undefined are falsy
OrElse(a, b) == IF a # "" THEN a ELSE b

\* the prompt with no fallback
userContentPromptOnly(prompt, n) == prompt

\* prompt || attachmentsSummary || "Sent a message"
userContent(prompt, n) == OrElse(prompt, OrElse(attachmentsSummary(n), "Sent a message"))

\* the parts of the assistant content joined by "\n\n", absent parts filtered out
assistantContent(n) ==
  "Pretending to call " \o providerLabel \o " * " \o modelLabel \o "."
  \o (IF n > 0
      THEN "\n\n" \o "I spotted " \o ToString(n) \o " attachment"
           \o (IF n > 1 THEN "s" ELSE "") \o ". Replace this with your vision/tool call."
      ELSE "")
  \o "\n\n"
  \o "Swap this helper with your real API handler and stream tokens into the conversation."

\* a message that holds the live buffer, which the submit then empties
userMessageOfLiveBuffer(id, prompt, attachments) ==
  [id |-> id, role |-> "user", content |-> userContent(prompt, Len(attachments)),
   attachments |-> <<>>, reaction |-> Null]

userMessage(id, prompt, attachments) ==
  [id |-> id, role |-> "user", content |-> userContent(prompt, Len(attachments)),
   attachments |-> attachments, reaction |-> Null]

assistantMessage(id, attachments) ==
  [id |-> id, role |-> "assistant", content |-> assistantContent(Len(attachments)),
   attachments |-> <<>>, reaction |-> Null]

\* a refresh that puts the refreshed summary at the end of the first group
refreshAtEnd(groups, conversationId, preview, title) ==
  promoteAtEnd(groups, conversationId, RefreshFactory(conversationId, preview, title))

refreshHistoryPreview(groups, conversationId, preview, title) ==
  promoteConversation(groups, conversationId, RefreshFactory(conversationId, preview, title))

\* the reply timer handleSubmit leaves behind: the conversationId and the
\* assistantMessage its callback captured
ReplyTimer(conversationId, message) ==
  [conversationId |-> conversationId, assistantMessage |-> message]

\* a submit that leaves the copy marker as it finds it
handleSubmitKeepingMarker ==
  /\ handled < MaxEvents
  /\ IF SubmitRejected
     THEN UNCHANGED vars
     ELSE \E ids \in Draws(issued, 2) :
            LET conversationId == activeConversationId
                conversationTitle == activeConversationTitle
                prompt == Trim(input)
                attachments == composerAttachments
                user == userMessage(ids[1], prompt, attachments)
                reply == assistantMessage(ids[2], attachments)
            IN /\ conversations' =
                    updateConversationMessages(conversations, conversationId,
                      Append(Current(conversations, conversationId), user))
               /\ historyGroups' =
                    refreshHistoryPreview(historyGroups, conversationId,
                      userContent(prompt, Len(attachments)), conversationTitle)
               /\ composerAttachments' = <<>>
               /\ input' = ""
               /\ copiedMessageId' = copiedMessageId
               /\ isGenerating' = TRUE
               /\ replyTimers' =
                    Append(replyTimers, ReplyTimer(conversationId, reply))
               /\ issued' = issued \o ids
               /\ handled' = handled + 1
               /\ accepted' = accepted + 1
               /\ crossed' = AllCrossed(crossed)
               /\ UNCHANGED << survived, clipboardWrites, copyTimers, activeConversationId, activeConversationTitle,
                               chatCounter, reading, opened, delivered >>

handleSubmit ==
  /\ handled < MaxEvents
  /\ IF SubmitRejected
     THEN UNCHANGED vars
     ELSE \E ids \in Draws(issued, 2) :
            LET conversationId == activeConversationId
                conversationTitle == activeConversationTitle
                prompt == Trim(input)
                attachments == composerAttachments
                user == userMessage(ids[1], prompt, attachments)
                reply == assistantMessage(ids[2], attachments)
            IN /\ conversations' =
                    updateConversationMessages(conversations, conversationId,
                      Append(Current(conversations, conversationId), user))
               /\ historyGroups' =
                    refreshHistoryPreview(historyGroups, conversationId,
                      userContent(prompt, Len(attachments)), conversationTitle)
               /\ composerAttachments' = <<>>
               /\ input' = ""
               /\ copiedMessageId' = Null
               /\ isGenerating' = TRUE
               /\ replyTimers' =
                    Append(replyTimers, ReplyTimer(conversationId, reply))
               /\ issued' = issued \o ids
               /\ handled' = handled + 1
               /\ accepted' = accepted + 1
               /\ crossed' = AllCrossed(crossed)
               /\ UNCHANGED << survived, clipboardWrites, copyTimers, activeConversationId, activeConversationTitle,
                               chatCounter, reading, opened, delivered >>

\* a callback that leaves the flag as it finds it
FlagKept == isGenerating

\* the flag the timer callback leaves: setIsGenerating(false)
FlagAfterReply == FALSE

\* a callback that appends to whichever conversation is active when it fires
ReplyTargetActive(timer) == activeConversationId

\* the conversation the timer callback appends to: the captured conversationId
ReplyTarget(timer) == timer.conversationId

\* a callback that also refreshes the summary of its conversation with the reply
deliverReplyRefreshing ==
  /\ replyTimers # <<>>
  /\ LET t == Head(replyTimers)
     IN /\ conversations' =
             updateConversationMessages(conversations, ReplyTarget(t),
               Append(Current(conversations, ReplyTarget(t)), t.assistantMessage))
        /\ historyGroups' =
             refreshHistoryPreview(historyGroups, ReplyTarget(t), t.assistantMessage.content, Null)
  /\ isGenerating' = FlagAfterReply
  /\ replyTimers' = Tail(replyTimers)
  /\ delivered' = delivered + 1
  /\ UNCHANGED << crossed, survived, clipboardWrites, copyTimers, activeConversationId, activeConversationTitle,
                  chatCounter, composerAttachments, copiedMessageId, input,
                  reading, issued, opened, handled, accepted >>

\* the window.setTimeout callback of handleSubmit; equal delays fire in the
\* order they were set
deliverReply ==
  /\ replyTimers # <<>>
  /\ LET t == Head(replyTimers)
     IN conversations' =
          updateConversationMessages(conversations, ReplyTarget(t),
            Append(Current(conversations, ReplyTarget(t)), t.assistantMessage))
  /\ isGenerating' = FlagAfterReply
  /\ replyTimers' = Tail(replyTimers)
  /\ delivered' = delivered + 1
  /\ UNCHANGED << crossed, survived, clipboardWrites, copyTimers, historyGroups, activeConversationId, activeConversationTitle,
                  chatCounter, composerAttachments, copiedMessageId, input,
                  reading, issued, opened, handled, accepted >>

(* ------------------------ conversation lifecycle ----------------------- *)

\* a new chat that leaves the in-flight flag as it finds it
handleNewChatKeepingFlag ==
  /\ handled < MaxEvents
  /\ \E ids \in Draws(issued, 1 + Len(messageTemplates)) :
       LET conversationId == ids[1]
           conversationTitle == "Untitled chat " \o ToString(chatCounter)
       IN /\ chatCounter' = chatCounter + 1
          /\ conversations' =
               updateConversationMessages(conversations, conversationId,
                 createInitialMessages(SubSeq(ids, 2, Len(ids))))
          /\ activeConversationId' = conversationId
          /\ activeConversationTitle' = conversationTitle
          /\ composerAttachments' = <<>>
          /\ input' = ""
          /\ copiedMessageId' = Null
          /\ isGenerating' = isGenerating
          /\ historyGroups' =
               promoteConversation(historyGroups, conversationId,
                 ConstFactory([id |-> conversationId, title |-> conversationTitle,
                               preview |-> "Say hello to Nova to get started.",
                               timestamp |-> "Just now"]))
          /\ issued' = issued \o ids
          /\ opened' = opened \cup { conversationId }
          /\ handled' = handled + 1
          /\ crossed' = AllCrossed(crossed)
          /\ UNCHANGED << survived, clipboardWrites, copyTimers, replyTimers, reading, accepted, delivered >>

handleNewChat ==
  /\ handled < MaxEvents
  /\ \E ids \in Draws(issued, 1 + Len(messageTemplates)) :
       LET conversationId == ids[1]
           conversationTitle == "Untitled chat " \o ToString(chatCounter)
       IN /\ chatCounter' = chatCounter + 1
          /\ conversations' =
               updateConversationMessages(conversations, conversationId,
                 createInitialMessages(SubSeq(ids, 2, Len(ids))))
          /\ activeConversationId' = conversationId
          /\ activeConversationTitle' = conversationTitle
          /\ composerAttachments' = <<>>
          /\ input' = ""
          /\ copiedMessageId' = Null
          /\ isGenerating' = FALSE
          /\ historyGroups' =
               promoteConversation(historyGroups, conversationId,
                 ConstFactory([id |-> conversationId, title |-> conversationTitle,
                               preview |-> "Say hello to Nova to get started.",
                               timestamp |-> "Just now"]))
          /\ issued' = issued \o ids
          /\ opened' = opened \cup { conversationId }
          /\ handled' = handled + 1
          /\ crossed' = AllCrossed(crossed)
          /\ UNCHANGED << survived, clipboardWrites, copyTimers, replyTimers, reading, accepted, delivered >>

\* a selection that aborts the encodes in flight
handleSelectAbortingEncodes(conversation) ==
  /\ handled < MaxEvents
  /\ activeConversationId' = conversation.id
  /\ activeConversationTitle' = conversation.title
  /\ composerAttachments' = <<>>
  /\ input' = ""
  /\ copiedMessageId' = Null
  /\ isGenerating' = FALSE
  /\ IF conversation.id \in DOMAIN conversations
     THEN UNCHANGED << conversations, issued >>
     ELSE \E id \in createId(issued) :
            /\ conversations' =
                 updateConversationMessages(conversations, conversation.id,
                   createPlaceholderConversation(id, conversation.title, conversation.preview))
            /\ issued' = Append(issued, id)
  /\ historyGroups' =
       promoteConversation(historyGroups, conversation.id, KeepFactory(conversation))
  /\ opened' = opened \cup { conversation.id }
  /\ handled' = handled + 1
  /\ crossed' = <<>>
  /\ reading' = <<>>
  /\ UNCHANGED << survived, clipboardWrites, copyTimers, chatCounter, replyTimers, accepted, delivered >>

handleSelectConversation(conversation) ==
  /\ handled < MaxEvents
  /\ activeConversationId' = conversation.id
  /\ activeConversationTitle' = conversation.title
  /\ composerAttachments' = <<>>
  /\ input' = ""
  /\ copiedMessageId' = Null
  /\ isGenerating' = FALSE
  /\ IF conversation.id \in DOMAIN conversations
     THEN UNCHANGED << conversations, issued >>
     ELSE \E id \in createId(issued) :
            /\ conversations' =
                 updateConversationMessages(conversations, conversation.id,
                   createPlaceholderConversation(id, conversation.title, conversation.preview))
            /\ issued' = Append(issued, id)
  /\ historyGroups' =
       promoteConversation(historyGroups, conversation.id, KeepFactory(conversation))
  /\ opened' = opened \cup { conversation.id }
  /\ handled' = handled + 1
  /\ crossed' = AllCrossed(crossed)
  /\ UNCHANGED << survived, clipboardWrites, copyTimers, chatCounter, replyTimers, reading, accepted, delivered >>

(* ---------------------------- specification ---------------------------- *)

Next ==
  \/ \E text \in Texts : setInput(text)
  \/ \E file \in Files : stageFile(file)
  \/ \E i \in 1..Len(reading) : readerOnload(i)
  \/ \E a \in Range(composerAttachments) : handleRemoveAttachment(a.id)
  \/ \E m \in Range(Current(conversations, activeConversationId)) :
       \E reaction \in { "upvote", "downvote" } : toggleReaction(m.id, reaction)
  \/ \E m \in Range(Current(conversations, activeConversationId)) : handleCopy(m)
  \/ \E i \in 1..Len(clipboardWrites) : clipboardResolved(i)
  \/ \E i \in 1..Len(clipboardWrites) : clipboardRejected(i)
  \/ clearCopied
  \/ handleSubmit
  \/ deliverReply
  \/ handleNewChat
  \* the history buttons call it with a summary of the rendered index
  \/ \E conversation \in Range(Flatten(historyGroups)) : handleSelectConversation(conversation)

Spec == Init /\ [][Next]_vars

\* a timer that was set fires: the event loop runs every due callback
LiveSpec == Spec /\ WF_vars(deliverReply)

\* a copy timer that was set fires
CopyLiveSpec == Spec /\ WF_vars(clearCopied)

(* ------------------ promoteConversation as a function ------------------ *)
(* A second specification applies promoteConversation, with every          *)
(* identifier and every summary factory of a bounded set, to every         *)
(* duplicate-free index of at most MaxGroups groups over PIds.  Only       *)
(* historyGroups changes.                                                  *)

\* groups of the indexes promoteConversation is applied to
MaxGroups == 2

PIds == { "a", "b" }

\* an identifier no initial index holds
PAbsentId == "c"

PSummary(id) ==
  [id |-> id, title |-> "Title " \o id, preview |-> "Preview " \o id, timestamp |-> "1h ago"]

PDistinctSeqs ==
  { q \in UNION { [1..n -> PIds] : n \in 0..Cardinality(PIds) } :
      \A i, j \in 1..Len(q) : i # j => q[i] # q[j] }

PGroup(g, q) ==
  [label |-> "Group " \o ToString(g),
   conversations |-> [ i \in 1..Len(q) |-> PSummary(q[i]) ]]

PIndexes ==
  UNION { { [ g \in 1..k |-> PGroup(g, qs[g]) ] :
            qs \in { f \in [1..k -> PDistinctSeqs] :
                       \A g, h \in 1..k : g # h => Range(f[g]) \cap Range(f[h]) = {} } } :
          k \in 0..MaxGroups }

\* summaries a const or keep factory holds
PGiven == { [id |-> i, title |-> "Given " \o i, preview |-> "given", timestamp |-> "Just now"] :
            i \in PIds \cup { PAbsentId } }

\* the factories promoteConversation(groups, id, f) is called with
PFactories(id) ==
  { RefreshFactory(id, "a new preview", t) : t \in { Null, "Renamed" } }
  \cup { ConstFactory(g) : g \in PGiven }
  \cup { KeepFactory(g) : g \in PGiven }

PInit ==
  /\ historyGroups \in PIndexes
  /\ conversations = << >>
  /\ activeConversationId = Null
  /\ activeConversationTitle = Null
  /\ chatCounter = 0
  /\ composerAttachments = <<>>
  /\ copiedMessageId = Null
  /\ input = ""
  /\ isGenerating = FALSE
  /\ replyTimers = <<>>
  /\ reading = <<>>
  /\ issued = <<>>
  /\ opened = {}
  /\ handled = 0
  /\ accepted = 0
  /\ delivered = 0
  /\ clipboardWrites = <<>>
  /\ copyTimers = <<>>
  /\ crossed = <<>>
  /\ survived = 0

PPromote(id, f) ==
  /\ historyGroups' = promoteConversation(historyGroups, id, f)
  /\ UNCHANGED << crossed, survived, clipboardWrites, copyTimers, conversations, activeConversationId, activeConversationTitle,
                  chatCounter, composerAttachments, copiedMessageId, input,
                  isGenerating, replyTimers, reading, issued, opened, handled,
                  accepted, delivered >>

PNext == \E id \in PIds \cup { PAbsentId } : \E f \in PFactories(id) : PPromote(id, f)

PromoteSpec == PInit /\ [][PNext]_vars

(* --------------- handleSelectConversation with any summary ------------ *)
(* A third specification calls handleSelectConversation, from every index  *)
(* of PIndexes and an empty store, with the summaries of the index and     *)
(* with summaries given from outside: summaries of identifiers the index   *)
(* holds, with other fields, and a summary of an identifier it lacks.      *)

SArguments == PGiven \cup Range(Flatten(historyGroups))

SNext == \E conversation \in SArguments : handleSelectConversation(conversation)

SelectSpec == PInit /\ [][SNext]_vars

(* ------------------------------- claims -------------------------------- *)

Last(q) == q[Len(q)]

\* no identifier has two summaries in the index
NoDuplicateIds(groups) ==
  LET all == Flatten(groups)
  IN \A i, j \in 1..Len(all) : i # j => all[i].id # all[j].id

\* the first summary of id in the index, or null
LookupSummary(groups, id) ==
  LET all == Flatten(groups)
  IN IF \E i \in 1..Len(all) : all[i].id = id
     THEN all[CHOOSE i \in 1..Len(all) :
                all[i].id = id /\ \A j \in 1..Len(all) : all[j].id = id => i <= j]
     ELSE NoSummary

\* the replies of the simulated assistant
IsSimulatedReply(m) ==
  m.role = "assistant" /\ Len(m.content) > 18 /\ SubSeq(m.content, 1, 18) = "Pretending to call"

\* C1: in every reachable state at most one simulated assistant reply is
\* pending: after an accepted submit no further submit is accepted until the
\* reply has been delivered.
C1_AtMostOnePendingReply == Len(replyTimers) <= 1

\* C2: the reply of an accepted submit is set for the conversation active at
\* submit time; no step other than its delivery removes a pending reply; its
\* delivery appends the captured assistant message to that conversation and
\* changes no other conversation's message list.
C2_ReplyLandsInSubmitConversation ==
  /\ [][accepted' = accepted + 1 =>
          /\ Len(replyTimers') = Len(replyTimers) + 1
          /\ SubSeq(replyTimers', 1, Len(replyTimers)) = replyTimers
          /\ Last(replyTimers').conversationId = activeConversationId]_vars
  /\ [][(accepted' = accepted /\ delivered' = delivered) => replyTimers' = replyTimers]_vars
  /\ [][delivered' = delivered + 1 =>
          LET t == Head(replyTimers)
          IN /\ replyTimers' = Tail(replyTimers)
             /\ DOMAIN conversations' = (DOMAIN conversations) \cup { t.conversationId }
             /\ conversations'[t.conversationId] =
                  Append(Current(conversations, t.conversationId), t.assistantMessage)
             /\ \A k \in (DOMAIN conversations) \ { t.conversationId } :
                  conversations'[k] = conversations[k]]_vars

\* a reply was delivered to a conversation that is no longer the active one
C2_Witness ==
  /\ delivered >= 1
  /\ \E k \in DOMAIN conversations :
       /\ k # activeConversationId
       /\ IsSimulatedReply(Last(conversations[k]))

\* C3: under fairness of the timer the n-th accepted submit is followed by
\* the n-th delivery; every accepted submit has one reply, pending or
\* delivered once; a delivery appends exactly one assistant message to its
\* conversation and leaves the in-flight flag false.
C3_EverySubmitGetsOneReply ==
  /\ \A n \in 1..MaxEvents : (accepted >= n) ~> (delivered >= n)
  /\ [](delivered + Len(replyTimers) = accepted)
  /\ [][delivered' = delivered + 1 =>
          LET target == Head(replyTimers).conversationId
          IN /\ Len(conversations'[target]) = Len(Current(conversations, target)) + 1
             /\ IsSimulatedReply(Last(conversations'[target]))
             /\ isGenerating' = FALSE]_vars

\* two submits were accepted and both replies were delivered
C3_Witness ==
  /\ accepted = 2
  /\ delivered = 2
  /\ isGenerating = FALSE

\* C4: in every reachable state in which an assistant reply is pending the
\* in-flight flag is true.
C4_FlagTrueWhilePending == replyTimers # <<>> => isGenerating

\* C5: in every state reachable from the seeded history every conversation
\* identifier has at most one summary over all groups, and no step removes an
\* identifier from the index.
C5_OneSummaryPerConversation ==
  /\ [](NoDuplicateIds(historyGroups))
  /\ [][HistoryIds(historyGroups) \subseteq HistoryIds(historyGroups')]_vars

\* a new chat, an accepted submit with its reply, and a conversation of the
\* second group moved to the first
C5_Witness ==
  /\ chatCounter > SeedCount + 1
  /\ delivered >= 1
  /\ Len(historyGroups[2].conversations) < Len(historySeed[2].conversations)

\* promote(id, f) keeps the index free of duplicates and loses no identifier
PromoteKeepsIds(groups, id, f) ==
  LET r == promoteConversation(groups, id, f)
  IN /\ NoDuplicateIds(r)
     /\ HistoryIds(groups) \subseteq HistoryIds(r)

\* f returns a summary of the identifier it is called for
ReturnsSameId(groups, id, f) == Apply(f, LookupSummary(groups, id)).id = id

\* C6 as stated: from every duplicate-free index reached by promote calls,
\* promote(id, f) with every identifier and every factory gives an index that
\* holds each identifier once and has lost none.
C6_AnyFactory ==
  NoDuplicateIds(historyGroups) =>
    \A id \in PIds \cup { PAbsentId } : \A f \in PFactories(id) :
      PromoteKeepsIds(historyGroups, id, f)

\* C6 amended: the same for every factory that returns a summary whose
\* identifier is the promoted one; the index then holds exactly the earlier
\* identifiers and id.
C6_FactoryOfSameId ==
  NoDuplicateIds(historyGroups) =>
    \A id \in PIds \cup { PAbsentId } :
      \A f \in { g \in PFactories(id) : ReturnsSameId(historyGroups, id, g) } :
        /\ PromoteKeepsIds(historyGroups, id, f)
        /\ HistoryIds(promoteConversation(historyGroups, id, f)) =
             HistoryIds(historyGroups) \cup { id }

\* a two-group index in which every identifier, the absent one included, was
\* promoted into the first group
C6_Witness ==
  /\ NoDuplicateIds(historyGroups)
  /\ Len(historyGroups) = 2
  /\ historyGroups[2].conversations = <<>>
  /\ HistoryIds(historyGroups) = PIds \cup { PAbsentId }
  /\ \A c \in Range(historyGroups[1].conversations) : c.timestamp = "Just now"

\* the summaries of a group other than those of the identifiers in ids
Others(convs, ids) == SelectSeqBy(convs, { c \in Range(convs) : c.id \notin ids })

\* C7: promote(id, f) returns an index whose first group starts with the
\* summary f computes from the existing summary of id (null when absent); an
\* empty index gets one group "Today"; otherwise the groups and their labels
\* stay, and the summaries of the other identifiers keep group and order.
C7_PromotedSummaryFirst ==
  \A id \in PIds \cup { PAbsentId } : \A f \in PFactories(id) :
    LET r == promoteConversation(historyGroups, id, f)
        u == Apply(f, LookupSummary(historyGroups, id))
    IN /\ Len(r) >= 1
       /\ r[1].conversations[1] = u
       /\ IF Len(historyGroups) = 0
          THEN r = << [label |-> "Today", conversations |-> <<u>>] >>
          ELSE /\ Len(r) = Len(historyGroups)
               /\ \A g \in 1..Len(r) :
                    /\ r[g].label = historyGroups[g].label
                    /\ Others(r[g].conversations, { id, u.id }) =
                         Others(historyGroups[g].conversations, { id, u.id })
               /\ Len(r[1].conversations) =
                    1 + Len(Others(historyGroups[1].conversations, { id, u.id }))

\* an index that had no group: promotions created the group and filled it
C7_Witness ==
  /\ Len(historyGroups) = 1
  /\ historyGroups[1].label = "Today"
  /\ Len(historyGroups[1].conversations) = 3
  /\ historyGroups[1].conversations[1].title = "Renamed"

IsNewChatTitle(title) == Len(title) > 14 /\ SubSeq(title, 1, 14) = "Untitled chat "

\* the summaries of the new chats in the first group, in its order
NewChatSummaries(groups) ==
  SelectSeqBy(groups[1].conversations,
              { c \in Range(groups[1].conversations) : IsNewChatTitle(c.title) })

\* C8: right after every newChat call the new conversation, titled with the
\* counter, is first in the first group, and the first group lists every
\* earlier new chat after it, with pairwise distinct identifiers and distinct
\* titles of smaller counters.
C8_NewChatsDistinctAndOrdered ==
  [][chatCounter' = chatCounter + 1 =>
       LET listed == NewChatSummaries(historyGroups')
       IN /\ historyGroups'[1].conversations[1].id = activeConversationId'
          /\ historyGroups'[1].conversations[1].title = "Untitled chat " \o ToString(chatCounter)
          /\ Len(listed) = chatCounter - SeedCount
          /\ \A i, j \in 1..Len(listed) :
               i # j => listed[i].id # listed[j].id /\ listed[i].title # listed[j].title
          /\ \A i \in 1..Len(listed) :
               listed[i].title \in
                 { "Untitled chat " \o ToString(n) : n \in (SeedCount + 1)..chatCounter }]_vars

\* the placeholder message list of a summary, whatever its message id
IsPlaceholderOf(messages, summary) ==
  /\ Len(messages) = 1
  /\ messages = createPlaceholderConversation(messages[1].id, summary.title, summary.preview)

\* C9 as stated: a history conversation that was never opened has no entry
\* in the store.
C9_NoEntryBeforeOpened ==
  \A id \in HistoryIds(historyGroups) \ opened : id \notin DOMAIN conversations

\* C9 amended: the entries of the history conversations exist from
\* construction: every summary of the index has an entry in the store, the
\* entry of a conversation never opened is the single placeholder message of
\* its title and preview, and the first selectConversation on such a
\* conversation leaves the store as it is.
C9_EntriesBuiltAtConstruction ==
  /\ [](\A c \in Range(Flatten(historyGroups)) :
          /\ c.id \in DOMAIN conversations
          /\ c.id \notin opened => IsPlaceholderOf(conversations[c.id], c))
  /\ [][(\E id \in HistoryIds(historyGroups) \ opened : opened' = opened \cup { id })
          => conversations' = conversations]_vars

\* a seeded conversation was selected for the first time and shows its
\* placeholder
C9_Witness ==
  /\ activeConversationId \in opened \ { seedActiveConversationId }
  /\ activeConversationId \in HistoryIds(historySeed)
  /\ IsPlaceholderOf(conversations[activeConversationId],
                     LookupSummary(historyGroups, activeConversationId))

\* the characters of text that are not white space
NonSpaces(text) == { i \in 1..Len(text) : ~IsSpace(SubSeq(text, i, i)) }

\* text from its first to its last character that is not white space
Trimmed(text) ==
  IF NonSpaces(text) = {} THEN ""
  ELSE SubSeq(text,
              CHOOSE i \in NonSpaces(text) : \A j \in NonSpaces(text) : i <= j,
              CHOOSE i \in NonSpaces(text) : \A j \in NonSpaces(text) : i >= j)

ExpectedUserContent(text, n) ==
  IF Trimmed(text) # "" THEN Trimmed(text)
  ELSE IF n = 1 THEN "Shared 1 attachment"
  ELSE IF n > 1 THEN "Shared " \o ToString(n) \o " attachments"
  ELSE "Sent a message"

\* C10: the user message an accepted submit appends has the trimmed text as
\* content when that is not empty, else the attachment-count summary when
\* attachments are staged, else "Sent a message"; no user message of any
\* conversation has the empty string as content.
C10_UserContentFallback ==
  /\ [](\A k \in DOMAIN conversations : \A m \in Range(conversations[k]) :
          m.role = "user" => m.content # "")
  /\ [][accepted' = accepted + 1 =>
          LET m == Last(conversations'[activeConversationId])
          IN /\ m.role = "user"
             /\ m.content = ExpectedUserContent(input, Len(composerAttachments))]_vars

\* two images were staged with an empty-after-trim prompt, and the submit
\* produced a user message carrying the plural attachment summary
C10_Witness ==
  \E k \in DOMAIN conversations : \E m \in Range(conversations[k]) :
    /\ m.role = "user"
    /\ m.content = "Shared 2 attachments"
    /\ Len(m.attachments) = 2

\* C11: a submit request made when the trimmed composer text is empty and no
\* attachment is staged, or when the in-flight flag is true, changes nothing:
\* store, index, composer text, buffer, copy marker, flag and pending replies
\* all stay as they are.
C11_RejectedSubmitIsNoOp ==
  ((Trimmed(input) = "" /\ composerAttachments = <<>>) \/ isGenerating)
    => ~ENABLED <<handleSubmit>>_vars

\* a submit request can be made while a reply is in flight and an image is
\* staged
C11_Witness ==
  /\ isGenerating
  /\ replyTimers # <<>>
  /\ composerAttachments # <<>>
  /\ ENABLED handleSubmit

\* C12: the attachments of the user message an accepted submit appends are the
\* buffer as it is at the submit, and no later step changes the attachment
\* list of a user message of the store: a user message that is in the store
\* before and after a step has the same attachments before and after it.
C12_SentAttachmentsNeverChange ==
  /\ [][accepted' = accepted + 1 =>
          Last(conversations'[activeConversationId]).attachments = composerAttachments]_vars
  /\ [][\A k \in DOMAIN conversations : \A i \in 1..Len(conversations[k]) :
          (/\ conversations[k][i].role = "user"
           /\ k \in DOMAIN conversations'
           /\ i <= Len(conversations'[k])
           /\ conversations'[k][i].id = conversations[k][i].id)
            => conversations'[k][i].attachments = conversations[k][i].attachments]_vars

\* a message was sent with an attachment, and afterwards another image was
\* staged and encoded into the buffer
C12_Witness ==
  /\ composerAttachments # <<>>
  /\ \E k \in DOMAIN conversations : \E m \in Range(conversations[k]) :
       /\ m.role = "user"
       /\ m.attachments # <<>>
       /\ m.attachments # composerAttachments

Reactions == { "upvote", "downvote" }

\* the message m with its reaction replaced by reaction
WithReaction(m, reaction) ==
  [id |-> m.id, role |-> m.role, content |-> m.content,
   attachments |-> m.attachments, reaction |-> reaction]

\* C13: applying reaction r to a message that holds r clears it, applying r
\* to a message that holds no reaction or the other one sets r, so applying r
\* twice to a message without reaction gives no reaction again; nothing else
\* of the message changes, and every step that changes the reaction of a
\* message is such an application in the active conversation.
C13_ReactionThreeStateToggle ==
  /\ [](LET current == Current(conversations, activeConversationId)
        IN \A i \in 1..Len(current) : \A r \in Reactions :
             LET once == ToggledMessages(current, current[i].id, r)
                 twice == ToggledMessages(once, current[i].id, r)
             IN /\ Len(once) = Len(current)
                /\ current[i].reaction = r => once[i] = WithReaction(current[i], Null)
                /\ current[i].reaction # r => once[i] = WithReaction(current[i], r)
                /\ current[i].reaction = Null => twice[i] = current[i]
                /\ \A j \in 1..Len(current) :
                     current[j].id # current[i].id => once[j] = current[j])
  /\ [][(\E k \in (DOMAIN conversations) \cap (DOMAIN conversations') :
           \E i \in 1..Len(conversations[k]) :
             /\ i <= Len(conversations'[k])
             /\ conversations'[k][i].id = conversations[k][i].id
             /\ conversations'[k][i].reaction # conversations[k][i].reaction)
          => \E m \in Range(Current(conversations, activeConversationId)) : \E r \in Reactions :
               conversations' =
                 updateConversationMessages(conversations, activeConversationId,
                   ToggledMessages(Current(conversations, activeConversationId), m.id, r))]_vars

\* reactions were applied: one reply of the active conversation holds an
\* upvote and another a downvote
C13_Witness ==
  \E m, n \in Range(Current(conversations, activeConversationId)) :
    /\ m.reaction = "upvote"
    /\ n.reaction = "downvote"

\* the identifiers two consecutive createId() calls returned: handleSubmit
\* draws the identifier of its user message and then the one of its reply
SubmitPairs == { <<issued[j], issued[j + 1]>> : j \in 1..(Len(issued) - 1) }

\* the places of conversation k that hold the user message sent with reply
UserPlaces(k, reply) ==
  { i \in 1..Len(Current(conversations, k)) :
      /\ conversations[k][i].role = "user"
      /\ <<conversations[k][i].id, reply.id>> \in SubmitPairs }

\* C14: an accepted submit appends its user message at the end of the active
\* conversation; while its reply is pending that user message is in the
\* conversation; the delivery appends the reply at the end of the conversation
\* as it then is, so behind its user message, whatever happened in between.
C14_UserBeforeAssistantAppendOnly ==
  /\ [][accepted' = accepted + 1 =>
          LET k == activeConversationId
          IN /\ Len(conversations'[k]) = Len(Current(conversations, k)) + 1
             /\ SubSeq(conversations'[k], 1, Len(conversations'[k]) - 1) = Current(conversations, k)
             /\ Last(conversations'[k]).role = "user"]_vars
  /\ [](\A n \in 1..Len(replyTimers) :
          UserPlaces(replyTimers[n].conversationId, replyTimers[n].assistantMessage) # {})
  /\ [][delivered' = delivered + 1 =>
          LET t == Head(replyTimers)
              k == t.conversationId
          IN /\ Len(conversations'[k]) = Len(Current(conversations, k)) + 1
             /\ SubSeq(conversations'[k], 1, Len(conversations'[k]) - 1) = Current(conversations, k)
             /\ Last(conversations'[k]) = t.assistantMessage
             /\ \E i \in UserPlaces(k, t.assistantMessage) : i < Len(conversations'[k])]_vars

\* two submits to one conversation were interleaved: both user messages were
\* appended before the first reply, and the replies follow in submit order
C14_Witness ==
  /\ delivered = 2
  /\ \E k \in DOMAIN conversations :
       LET q == conversations[k]
           n == Len(q)
       IN /\ n >= 4
          /\ q[n - 3].role = "user"
          /\ q[n - 2].role = "user"
          /\ IsSimulatedReply(q[n - 1])
          /\ IsSimulatedReply(q[n])
          /\ <<q[n - 3].id, q[n - 1].id>> \in SubmitPairs
          /\ <<q[n - 2].id, q[n].id>> \in SubmitPairs

\* C15: right after newChat, whatever the state it is called in, the new
\* conversation is the active one and holds the introductory messages, the
\* composer text and the buffer are empty, the copy marker is none, the
\* in-flight flag is false, and the new conversation's summary, with the
\* static preview, is first in the first group.
C15_NewChatResetsSession ==
  [][chatCounter' = chatCounter + 1 =>
       LET k == activeConversationId'
       IN /\ k \in DOMAIN conversations'
          /\ Len(conversations'[k]) = Len(messageTemplates)
          /\ \A i \in 1..Len(messageTemplates) :
               /\ conversations'[k][i].role = messageTemplates[i].role
               /\ conversations'[k][i].content = messageTemplates[i].content
               /\ conversations'[k][i].attachments = <<>>
               /\ conversations'[k][i].reaction = Null
          /\ activeConversationTitle' = "Untitled chat " \o ToString(chatCounter)
          /\ input' = ""
          /\ composerAttachments' = <<>>
          /\ copiedMessageId' = Null
          /\ isGenerating' = FALSE
          /\ historyGroups'[1].conversations[1] =
               [id |-> k, title |-> activeConversationTitle',
                preview |-> "Say hello to Nova to get started.",
                timestamp |-> "Just now"]]_vars

\* a new chat was opened while a reply and a copy timer were pending
C15_Witness ==
  /\ replyTimers # <<>>
  /\ copyTimers # <<>>
  /\ ~isGenerating
  /\ copiedMessageId = Null
  /\ IsNewChatTitle(activeConversationTitle)
  /\ Len(conversations[activeConversationId]) = Len(messageTemplates)
  /\ historyGroups[1].conversations[1].id = activeConversationId
  /\ historyGroups[1].conversations[1].preview = "Say hello to Nova to get started."

\* C16: selectConversation(summary) makes the summary's identifier active and
\* puts the summary of that identifier first in the first group: the one the
\* index holds, with its title, preview and recency label, when it holds one,
\* and the passed-in summary only when it holds none; the summaries of the
\* other identifiers keep group and order.
C16_SelectKeepsExistingSummary ==
  [][handled' = handled + 1 =>
       \E s \in SArguments :
         LET e == LookupSummary(historyGroups, s.id)
         IN /\ activeConversationId' = s.id
            /\ activeConversationTitle' = s.title
            /\ historyGroups'[1].conversations[1] = (IF e # NoSummary THEN e ELSE s)
            /\ HistoryIds(historyGroups') = HistoryIds(historyGroups) \cup { s.id }
            /\ NoDuplicateIds(historyGroups) => NoDuplicateIds(historyGroups')
            /\ \A g \in 1..Len(historyGroups) :
                 Others(historyGroups'[g].conversations, { s.id }) =
                   Others(historyGroups[g].conversations, { s.id })]_vars

\* a summary given from outside for an identifier of the index was selected
\* (the active title is the given one, the index kept its own summary), and a
\* given summary of an absent identifier was inserted
C16_Witness ==
  /\ \E id \in PIds :
       /\ activeConversationId = id
       /\ activeConversationTitle = "Given " \o id
       /\ historyGroups[1].conversations[1] = PSummary(id)
  /\ \E c \in Range(Flatten(historyGroups)) : c.id = PAbsentId /\ c.title = "Given " \o PAbsentId

\* the places <<conversation id, index>> of all messages of the store
AllMessages ==
  UNION { { <<k, i>> : i \in 1..Len(conversations[k]) } : k \in DOMAIN conversations }

\* C17: createId never returns a value it returned before, so in every
\* reachable state the identifiers of all messages of all conversations are
\* pairwise distinct, and no identifier was handed out twice (to two messages,
\* two conversations, or a message and a conversation).
C17_IdentifiersNeverRepeat ==
  /\ \A i, j \in 1..Len(issued) : i # j => issued[i] # issued[j]
  /\ \A p, q \in AllMessages :
       p # q => conversations[p[1]][p[2]].id # conversations[q[1]][q[2]].id

\* the MIME type names an image
ImageType(type) == \E rest \in { SubSeq(type, 7, Len(type)) } : type = "image/" \o rest

\* the attachment the encoding of file puts behind the attachments of buffer
EncodedAttachment(a, file, buffer) ==
  /\ a.type = file.type
  /\ a.size = file.size
  /\ a.preview = "data:" \o file.type \o ";base64," \o file.data
  /\ a.name = (IF file.name = "" THEN "pasted-image-" \o ToString(Len(buffer) + 1) \o ".png"
               ELSE file.name)

\* C18: staging a file that is not an image changes nothing and the buffer
\* never holds one; staging an image leaves the buffer as it is, and the
\* buffer grows only when an encoding completes, by the attachment of that
\* file at its end.
C18_OnlyEncodedImagesStaged ==
  /\ [](\A a \in Range(composerAttachments) : ImageType(a.type))
  /\ [](\A file \in Files : ~ImageType(file.type) => ~ENABLED <<stageFile(file)>>_vars)
  /\ [][Len(reading') > Len(reading) =>
          /\ composerAttachments' = composerAttachments
          /\ ImageType(Last(reading').type)]_vars
  /\ [][Len(composerAttachments') > Len(composerAttachments) =>
          \E i \in 1..Len(reading) :
            /\ reading' = RemoveAt(reading, i)
            /\ Len(composerAttachments') = Len(composerAttachments) + 1
            /\ SubSeq(composerAttachments', 1, Len(composerAttachments)) = composerAttachments
            /\ EncodedAttachment(Last(composerAttachments'), reading[i], composerAttachments)]_vars

\* one image is in the buffer while the encoding of another, staged later or
\* earlier, has not completed
C18_Witness ==
  /\ Len(composerAttachments) = 1
  /\ reading # <<>>
  /\ composerAttachments[1].name = "pasted-image-1.png"

\* C19: when a clipboard write fails the marker is none and nothing else
\* changes; when it succeeds the marker is the identifier of the copied
\* message and a timer is set for it; while the marker is set a timer for it
\* is pending, a timer that fires clears the marker when it still is its
\* message's, and so, the timers firing, a set marker is eventually none.
C19_CopyMarkerEventuallyCleared ==
  /\ [][Len(clipboardWrites') < Len(clipboardWrites) =>
          \E i \in 1..Len(clipboardWrites) :
            /\ clipboardWrites' = RemoveAt(clipboardWrites, i)
            /\ \/ /\ copiedMessageId' = clipboardWrites[i]
                  /\ copyTimers' = Append(copyTimers, clipboardWrites[i])
               \/ /\ copiedMessageId' = Null
                  /\ copyTimers' = copyTimers
            /\ UNCHANGED << conversations, historyGroups, input, composerAttachments,
                            isGenerating, replyTimers, activeConversationId >>]_vars
  /\ [][Len(copyTimers') < Len(copyTimers) =>
          /\ copyTimers' = Tail(copyTimers)
          /\ copiedMessageId = Head(copyTimers) => copiedMessageId' = Null
          /\ copiedMessageId # Head(copyTimers) => copiedMessageId' = copiedMessageId]_vars
  /\ [](copiedMessageId # Null => \E n \in 1..Len(copyTimers) : copyTimers[n] = copiedMessageId)
  /\ (copiedMessageId # Null) ~> (copiedMessageId = Null)

\* two different messages were copied one after the other: the marker is the
\* second one's and the timers of both are pending
C19_Witness ==
  /\ Len(copyTimers) = 2
  /\ copyTimers[1] # copyTimers[2]
  /\ copiedMessageId = copyTimers[2]

\* C20: right after an accepted submit the user message is the last message
\* of the conversation that was, and still is, the active one; it holds the
\* attachments of the buffer of that moment in buffer order, none for an empty
\* buffer; the buffer and the composer text are empty, the copy marker is none
\* and the in-flight flag is true.
C20_SubmitDrainsComposer ==
  [][accepted' = accepted + 1 =>
       LET k == activeConversationId
           m == Last(conversations'[k])
       IN /\ activeConversationId' = k
          /\ Len(conversations'[k]) = Len(Current(conversations, k)) + 1
          /\ m.role = "user"
          /\ Len(m.attachments) = Len(composerAttachments)
          /\ \A i \in 1..Len(composerAttachments) : m.attachments[i] = composerAttachments[i]
          /\ composerAttachments' = <<>>
          /\ input' = ""
          /\ copiedMessageId' = Null
          /\ isGenerating' = TRUE]_vars

\* a message was copied, an image staged, and the submit just sent it: the
\* copy timer and the reply are still pending
C20_Witness ==
  /\ accepted = 1
  /\ delivered = 0
  /\ handled = 3
  /\ copyTimers # <<>>
  /\ isGenerating
  /\ copiedMessageId = Null
  /\ input = ""
  /\ composerAttachments = <<>>
  /\ LET m == Last(conversations[activeConversationId])
     IN m.role = "user" /\ Len(m.attachments) = 1

\* preview is text cut to the preview limit, with the ellipsis behind it when
\* something was cut
IsPreviewOf(preview, text) ==
  IF Len(text) > truncateLimit
  THEN /\ Len(preview) = truncateLimit + 1
       /\ \A i \in 1..truncateLimit : SubSeq(preview, i, i) = SubSeq(text, i, i)
       /\ SubSeq(preview, truncateLimit + 1, truncateLimit + 1) = "^"
  ELSE preview = text

\* C21: right after an accepted submit the summary of the conversation
\* submitted to is first in the first group, with the title that summary had
\* before the submit, and with the content of the user message, cut to the
\* preview limit, as preview.
C21_SubmitRefreshesSummary ==
  [][accepted' = accepted + 1 =>
       LET k == activeConversationId
           before == LookupSummary(historyGroups, k)
           after == historyGroups'[1].conversations[1]
           content == Last(conversations'[k]).content
       IN /\ after.id = k
          /\ before # NoSummary
          /\ after.title = before.title
          /\ IsPreviewOf(after.preview, content)]_vars

\* a prompt longer than the limit was submitted: the preview is its first
\* characters and the ellipsis
C21_Witness ==
  LET first == historyGroups[1].conversations[1]
  IN /\ accepted >= 1
     /\ first.id = activeConversationId
     /\ Len(first.preview) = truncateLimit + 1
     /\ SubSeq(first.preview, truncateLimit + 1, truncateLimit + 1) = "^"
     /\ \E m \in Range(conversations[activeConversationId]) :
          m.role = "user" /\ Len(m.content) > truncateLimit
                          /\ SubSeq(m.content, 1, truncateLimit) = SubSeq(first.preview, 1, truncateLimit)

\* message m apart from its reaction
WithoutReaction(m) ==
  [id |-> m.id, role |-> m.role, content |-> m.content, attachments |-> m.attachments]

\* C22: every step leaves the message sequence of every conversation a prefix
\* of the new one as far as identifier, role, content and attachments go (only
\* the reaction of an existing message may change), so no conversation that
\* has an entry gets its messages replaced, by a placeholder or otherwise.
C22_MessagesAppendOnly ==
  [][\A k \in DOMAIN conversations :
       /\ k \in DOMAIN conversations'
       /\ Len(conversations'[k]) >= Len(conversations[k])
       /\ \A i \in 1..Len(conversations[k]) :
            WithoutReaction(conversations'[k][i]) = WithoutReaction(conversations[k][i])]_vars

\* C23: no step but its own completion removes a pending encode: a submit, a
\* new chat and a selection empty the buffer and leave the encodes in flight;
\* the completion appends the file's attachment to the buffer as it then is
\* and changes neither the active conversation nor any stored message, so the
\* attachment is not in the message already submitted.
C23_EncodeOutlivesNavigation ==
  /\ [][\/ reading' = reading
        \/ \E file \in Files : reading' = Append(reading, file)
        \/ \E i \in 1..Len(reading) :
             /\ reading' = RemoveAt(reading, i)
             /\ Len(composerAttachments') = Len(composerAttachments) + 1
             /\ SubSeq(composerAttachments', 1, Len(composerAttachments)) = composerAttachments
             /\ EncodedAttachment(Last(composerAttachments'), reading[i], composerAttachments)
             /\ conversations' = conversations
             /\ activeConversationId' = activeConversationId]_vars
  /\ [][(\/ accepted' = accepted + 1
         \/ chatCounter' = chatCounter + 1
         \/ activeConversationId' # activeConversationId)
          => /\ reading' = reading
             /\ composerAttachments' = <<>>]_vars

\* an image was staged, a prompt was submitted while the encode was in flight,
\* and the encode completed afterwards: the attachment is in the buffer and
\* the submitted message has none
C23_Witness ==
  /\ survived = 1
  /\ accepted = 1
  /\ handled = 2
  /\ Len(composerAttachments) = 1
  /\ \E m \in Range(conversations[activeConversationId]) :
       /\ m.role = "user"
       /\ Len(m.content) > truncateLimit
       /\ m.attachments = <<>>

\* the identifiers of the messages of conversation k
MessageIds(k) == { m.id : m \in Range(Current(conversations, k)) }

\* identifiers that are not in the active conversation: those of the messages
\* of the other conversations, and one no message has
AbsentMessageIds ==
  ((UNION { MessageIds(k) : k \in DOMAIN conversations }) \cup { "none" })
    \ MessageIds(activeConversationId)

\* C24: a reaction toggle with an identifier that is not in the active
\* conversation leaves the store as it is; a toggle with the identifier of a
\* message of the active conversation changes the reaction of that one
\* message and nothing else of the conversation; and a step that changes a
\* reaction changes no other conversation, no entry and not the index.
C24_ToggleTouchesOneMessage ==
  /\ [](LET current == Current(conversations, activeConversationId)
        IN \A r \in Reactions :
             /\ \A id \in AbsentMessageIds :
                  updateConversationMessages(conversations, activeConversationId,
                    ToggledMessages(current, id, r)) = conversations
             /\ \A i \in { n \in 1..Len(current) : current[n].role = "assistant" } :
                  LET toggled == ToggledMessages(current, current[i].id, r)
                  IN /\ toggled[i].reaction # current[i].reaction
                     /\ WithoutReaction(toggled[i]) = WithoutReaction(current[i])
                     /\ \A j \in 1..Len(current) : j # i => toggled[j] = current[j])
  /\ [][(\E i \in 1..Len(Current(conversations, activeConversationId)) :
           /\ i <= Len(conversations'[activeConversationId])
           /\ conversations'[activeConversationId][i].id = conversations[activeConversationId][i].id
           /\ conversations'[activeConversationId][i].reaction
                # conversations[activeConversationId][i].reaction)
          => /\ historyGroups' = historyGroups
             /\ DOMAIN conversations' = DOMAIN conversations
             /\ \A k \in (DOMAIN conversations) \ { activeConversationId } :
                  conversations'[k] = conversations[k]]_vars

\* C25: the summary of the active conversation is the first element of the
\* first history group in every reachable state, and the index changes only
\* in a step of submit, new chat or selection: reply delivery, reaction
\* toggles, staging, encoding, removal and copy leave it as it is.
C25_ActiveSummaryFirst ==
  /\ [](/\ Len(historyGroups) >= 1
        /\ Len(historyGroups[1].conversations) >= 1
        /\ historyGroups[1].conversations[1].id = activeConversationId)
  /\ [][historyGroups' # historyGroups =>
          \/ accepted' = accepted + 1
          \/ chatCounter' = chatCounter + 1
          \/ activeConversationId' # activeConversationId]_vars

\* a conversation of the second seed group was selected, a submit was
\* accepted in it and its reply was delivered: its summary is the first one
C25_Witness ==
  /\ activeConversationId \in { c.id : c \in Range(historySeed[2].conversations) }
  /\ accepted = 1
  /\ delivered = 1
  /\ chatCounter = SeedCount + 1
  /\ historyGroups[1].conversations[1].id = activeConversationId
  /\ historyGroups[1].conversations[1].timestamp = "Just now"
  /\ Len(historyGroups[1].conversations) = Len(historySeed[1].conversations) + 1

\* C26: in every reachable state the conversations that have an entry in the
\* store are the conversations that have a summary in the history index, the
\* active conversation is one of them, and so is the target of every pending
\* reply; a delivered reply lands in a conversation that has a summary.
C26_StoreMatchesIndex ==
  /\ [](/\ DOMAIN conversations = HistoryIds(historyGroups)
        /\ activeConversationId \in DOMAIN conversations
        /\ activeConversationId \in HistoryIds(historyGroups)
        /\ \A t \in Range(replyTimers) : ReplyTarget(t) \in HistoryIds(historyGroups))
  /\ [][delivered' = delivered + 1 =>
          LET k == ReplyTarget(Head(replyTimers))
          IN /\ k \in HistoryIds(historyGroups')
             /\ k \in DOMAIN conversations
             /\ DOMAIN conversations' = DOMAIN conversations
             /\ Last(conversations'[k]) = Head(replyTimers).assistantMessage]_vars

\* a submit, then a new chat, then the delivery: the reply is the last message
\* of a conversation that is not the active one and has a summary, and the
\* new conversation has an entry and a summary
C26_Witness ==
  /\ delivered = 1
  /\ chatCounter = SeedCount + 2
  /\ Cardinality(DOMAIN conversations) = SeedCount + 1
  /\ Cardinality(HistoryIds(historyGroups)) = SeedCount + 1
  /\ \E k \in DOMAIN conversations :
       /\ k # activeConversationId
       /\ k \in HistoryIds(historyGroups)
       /\ IsSimulatedReply(Last(conversations[k]))

\* C27: in every reachable state the active conversation title is the title
\* of the active conversation's summary in the history index, and an accepted
\* submit leaves the title of every summary as it was.
C27_ActiveTitleIsSummaryTitle ==
  /\ [](activeConversationTitle = LookupSummary(historyGroups, activeConversationId).title)
  /\ [][accepted' = accepted + 1 =>
          /\ HistoryIds(historyGroups') = HistoryIds(historyGroups)
          /\ \A k \in HistoryIds(historyGroups) :
               LookupSummary(historyGroups', k).title = LookupSummary(historyGroups, k).title]_vars

\* a conversation of the second seed group was selected and a submit was
\* accepted in it: its summary has the new preview and the title it had
C27_Witness ==
  /\ accepted = 1
  /\ \E c \in Range(historySeed[2].conversations) :
       /\ activeConversationId = c.id
       /\ activeConversationTitle = c.title
       /\ LookupSummary(historyGroups, c.id).title = c.title
       /\ LookupSummary(historyGroups, c.id).preview # c.preview

\* C28: in every reachable state in which the in-flight flag is true a reply
\* timer is pending, and, the timers being fair, a true flag is always
\* followed by a false one, whatever submits, selections and new chats
\* happen in between.
C28_FlagEventuallyFalse ==
  /\ [](isGenerating => replyTimers # <<>>)
  /\ isGenerating ~> ~isGenerating

\* a submit, a new chat and a second submit were handled, both replies were
\* delivered and the flag is false
C28_Witness ==
  /\ accepted = 2
  /\ delivered = 2
  /\ chatCounter = SeedCount + 2
  /\ replyTimers = <<>>
  /\ ~isGenerating

\* C29: the delivery of a reply appends the reply to the message list of its
\* target conversation, sets the in-flight flag to false and changes nothing
\* else: not the other conversations, the history index, the active
\* conversation identifier and title, the composer text, the attachment
\* buffer, the copy marker or the chat counter, whether or not the target is
\* the active conversation.
C29_DeliveryFrame ==
  [][delivered' = delivered + 1 =>
       LET t == Head(replyTimers)
           k == ReplyTarget(t)
       IN /\ DOMAIN conversations' = DOMAIN conversations
          /\ conversations'[k] = Append(conversations[k], t.assistantMessage)
          /\ \A other \in (DOMAIN conversations) \ { k } :
               conversations'[other] = conversations[other]
          /\ ~isGenerating'
          /\ UNCHANGED << historyGroups, activeConversationId, activeConversationTitle,
                          input, composerAttachments, copiedMessageId, chatCounter >>]_vars

\* a submit, the selection of another conversation and a typed text, then the
\* delivery: the reply is the last message of a conversation that is not the
\* active one, and the active conversation, the text and the index are what
\* the selection and the typing left
C29_Witness ==
  /\ delivered = 1
  /\ chatCounter = SeedCount + 1
  /\ input # ""
  /\ ~isGenerating
  /\ historyGroups[1].conversations[1].id = activeConversationId
  /\ \E k \in (DOMAIN conversations) \ { activeConversationId } :
       /\ IsSimulatedReply(Last(conversations[k]))
       /\ historyGroups[1].conversations[2].id = k
       /\ historyGroups[1].conversations[2].preview
            # truncateText(Last(conversations[k]).content)

====
